---- MODULE Spec2Model ----
(***************************************************************************)
(* Model of app/main.py: the file uploader's four HTTP handlers (index,    *)
(* upload, download, delete_file) over the "files" table and the upload    *)
(* directory.  Handlers run concurrently: download and delete_file are     *)
(* sync handlers executed on worker threads, upload is a coroutine on the  *)
(* event loop.  A step of a handler is the code between two accesses to    *)
(* shared state (a committed database statement, a filesystem call).       *)
(***************************************************************************)
EXTENDS Integers, Sequences, FiniteSets, TLC

VARIABLES
    files,       \* the rows of the "files" table
    disk,        \* the files of UPLOAD_DIR: path -> bytes
    nextUuid,    \* the next value uuid4() returns
    pc,          \* where each handler invocation stands
    loc,         \* the row an invocation holds in a local variable
    out,         \* the request answered by the latest step, with its response
    sent,        \* history: the bytes and content type uploaded for each live rec_id
    delStarted,  \* history: the ids a delete request has found in the table
    deleted,     \* history: the ids a delete request has answered 303 for
    rmFailed     \* history: an os.remove left its file on disk

vars == <<files, disk, nextUuid, pc, loc, out, sent, delStarted, deleted, rmFailed>>

-----------------------------------------------------------------------------
(* Bounds of the model *)

NumProcs == 2          \* handler invocations that may be in flight at once
MaxUuid == 2           \* uuid4() draws in one behaviour
MaxBody == 2           \* longest uploaded file, in bytes
MAX_UPLOAD_MB == 1     \* env MAX_UPLOAD_MB (main.py:30)

(* Program constants *)

FILENAME_MAX == 512    \* (file.filename or "unnamed")[:512]
BYTES_PER_MB == 1      \* 1024 * 1024 in main.py:292, scaled to the model's unit

Procs == 1..NumProcs
Uuids == 1..MaxUuid
Byte == {0, 1}

-----------------------------------------------------------------------------
(* Python values *)

None == <<>>                    \* None, as an optional value
Some(x) == <<x>>
IsNone(o) == Len(o) = 0
Val(o) == o[1]

Take(s, n) == SubSeq(s, 1, IF Len(s) < n THEN Len(s) ELSE n)

SeqsUpTo(S, n) == UNION {[1..k -> S] : k \in 0..n}

Chars(s) == {s[i] : i \in 1..Len(s)}

UPLOAD_DIR == <<"/", "tmp", "/", "uploads">>
UNNAMED == <<"u", "n", "n", "a", "m", "e", "d">>
OCTET_STREAM == "application/octet-stream"

Digits == <<"0", "1", "2", "3", "4", "5", "6", "7", "8", "9">>

\* str(uuid): a fixed-width rendering of the identifier
UuidStr(id) == <<Digits[((id \div 10) % 10) + 1], Digits[(id % 10) + 1]>>

-----------------------------------------------------------------------------
(* Pure parts of the handlers *)

MaxBytes == MAX_UPLOAD_MB * BYTES_PER_MB

\* if content_length and int(content_length) > MAX_UPLOAD_MB * 1024 * 1024
TooLarge(content_length) ==
    /\ ~IsNone(content_length)
    /\ Val(content_length) > MaxBytes

\* the upload without its check for an empty file
EmptyFile_Unchecked(size_bytes) == FALSE

\* if size_bytes == 0
EmptyFile(size_bytes) == size_bytes = 0

\* (file.filename or "unnamed")[:512]
SafeName(filename) ==
    Take(IF IsNone(filename) \/ Val(filename) = <<>> THEN UNNAMED ELSE Val(filename),
         FILENAME_MAX)

\* the path without the record's id in the file's name
LocalPath_NoId(rec_id, safe_name) == UPLOAD_DIR \o <<"/">> \o safe_name

\* os.path.join(UPLOAD_DIR, f"{rec_id}_{safe_name}")
LocalPath(rec_id, safe_name) ==
    UPLOAD_DIR \o <<"/">> \o UuidStr(rec_id) \o <<"_">> \o safe_name

\* open(path, "wb") creates the file only when every directory of the path
\* exists: a name that holds a separator names a directory nobody created.
CanCreate(safe_name) == "/" \notin Chars(safe_name)

\* the row of a local upload keeping the bytes too
StoredData_Kept(storage_choice, data) == data

\* data = b"" for a local upload, the read bytes otherwise
StoredData(storage_choice, data) == IF storage_choice = "local" THEN <<>> ELSE data

\* the values of insert(files).values(...)
NewRow(rec_id, fn, ct, st, b, now) ==
    LET safe_name == SafeName(fn)
        local == st = "local"
    IN  [id           |-> rec_id,
         filename     |-> safe_name,
         content_type |-> ct,
         size_bytes   |-> Len(b),
         data         |-> StoredData(st, b),
         path         |-> IF local THEN Some(LocalPath(rec_id, safe_name)) ELSE None,
         storage_type |-> IF local THEN "local" ELSE "db",
         uploaded_at  |-> now]

\* the media type without its default
MediaType_NoDefault(row) == IF IsNone(row.content_type) THEN "" ELSE Val(row.content_type)

\* row["content_type"] or "application/octet-stream"
MediaType(row) ==
    IF IsNone(row.content_type) \/ Val(row.content_type) = ""
    THEN OCTET_STREAM ELSE Val(row.content_type)

\* select(files).where(files.c.id == file_id) ... .first()
Lookup(table, file_id) == {row \in table : row.id = file_id}

\* a delete statement that matches no row
DeleteWhere_NoMatch(table, file_id) == table

\* delete(files).where(files.c.id == file_id)
DeleteWhere(table, file_id) == {row \in table : row.id # file_id}

\* select(files).order_by(files.c.uploaded_at.desc()), as the ids of the rows
RECURSIVE OrderByUploadedAtDesc(_)
OrderByUploadedAtDesc(table) ==
    IF table = {} THEN <<>>
    ELSE LET newest == CHOOSE row \in table :
                          \A other \in table : other.uploaded_at <= row.uploaded_at
         IN  <<newest.id>> \o OrderByUploadedAtDesc(table \ {newest})

\* os.remove(path): the directory without the file
Unlink(fs, path) == [q \in (DOMAIN fs) \ {path} |-> fs[q]]

\* open(path, "wb") ; f.write(data)
WriteFile(fs, path, data) == [q \in (DOMAIN fs) \cup {path} |-> IF q = path THEN data ELSE fs[q]]

-----------------------------------------------------------------------------
(* Requests and responses *)

\* The request an invocation serves: its route, the file_id of its URL, and of
\* an upload the storage field, the file's size and whether the content-length
\* header is present and over the maximum.
\* live: the table held a row of that id when the request was made.
NoReq == [kind |-> "none", id |-> 0, live |-> FALSE,
          storage |-> "db", declared_over |-> FALSE, size |-> 0]

IdReq(k, file_id, table) ==
    [NoReq EXCEPT !.kind = k, !.id = file_id,
                  !.live = \E row \in table : row.id = file_id]

UploadReq(st, cl, b) ==
    [NoReq EXCEPT !.kind = "upload", !.storage = st, !.size = Len(b),
                  !.declared_over = (~IsNone(cl) /\ Val(cl) > MaxBytes)]

\* the path of the request's URL, by segments: @app.post("/upload"),
\* @app.get("/download/{file_id}"), @app.post("/delete/{file_id}"), @app.get("/")
RequestPath(r) ==
    CASE r.kind = "upload"   -> <<"upload">>
      [] r.kind = "download" -> <<"download", "file_id">>
      [] r.kind = "delete"   -> <<"delete", "file_id">>
      [] OTHER               -> <<"">>

NoResp == [status |-> 0, body |-> <<>>, media |-> None, location |-> None]

\* raise HTTPException(status_code=...)
HttpError(code) == [NoResp EXCEPT !.status = code]

\* an exception no handler catches: the server answers 500
ServerError == [NoResp EXCEPT !.status = 500]

\* RedirectResponse(url=".", status_code=303)
Redirect == [NoResp EXCEPT !.status = 303, !.location = Some(<<".">>)]

\* StreamingResponse(..., media_type=row["content_type"] or "application/octet-stream")
Streaming(bytes, row) == [NoResp EXCEPT !.status = 200, !.body = bytes,
                                        !.media = Some(MediaType(row))]

\* HTMLResponse(render_index(rows)): the page, as the ids of its table rows
Html(rows) == [NoResp EXCEPT !.status = 200, !.body = rows, !.media = Some("text/html")]

(* The inputs of an upload: the file part's name, type and bytes, the storage
   field and the content-length header *)
Filenames == {None, Some(<<"/">>)}
ContentTypes == {None, Some("text/plain")}
StorageChoices == {"db", "local"}
ContentLengths == {None, Some(MaxBytes), Some(MaxBytes + 1)}
\* every file within the limit, and one file of each length beyond it
Bodies == {b \in SeqsUpTo(Byte, MaxBody) :
              Len(b) <= MaxBytes \/ \A i \in 1..Len(b) : b[i] = 0}

\* The latest step answered no request
NoOut == [req |-> NoReq, resp |-> NoResp, body_read |-> FALSE]

Free(p) == pc[p] = "idle"

\* the invocation answers request rq with r and ends
Finish(p, rq, r, read) ==
    /\ out' = [req |-> rq, resp |-> r, body_read |-> read]
    /\ pc' = [pc EXCEPT ![p] = "idle"]
    /\ loc' = [loc EXCEPT ![p] = None]

\* the invocation goes on to label, holding row
Goto(p, label, row) ==
    /\ pc' = [pc EXCEPT ![p] = label]
    /\ loc' = [loc EXCEPT ![p] = Some(row)]
    /\ out' = NoOut

\* the request of an invocation that holds its row
RowReq(k, row) ==
    IF k = "upload"
    THEN [NoReq EXCEPT !.kind = k, !.storage = row.storage_type, !.size = row.size_bytes]
    ELSE [NoReq EXCEPT !.kind = k, !.id = row.id, !.live = TRUE]

-----------------------------------------------------------------------------
Init ==
    /\ files = {}
    /\ disk = <<>>
    /\ nextUuid = 1
    /\ pc = [p \in Procs |-> "idle"]
    /\ loc = [p \in Procs |-> None]
    /\ out = NoOut
    /\ sent = {}
    /\ delStarted = {}
    /\ deleted = {}
    /\ rmFailed = FALSE

(* GET / *)
Index(p) ==
    /\ Free(p)
    /\ Finish(p, IdReq("index", 0, files), Html(OrderByUploadedAtDesc(files)), FALSE)
    /\ UNCHANGED <<files, disk, nextUuid, sent, delStarted, deleted, rmFailed>>

(* POST /upload, up to the write of the local file.  request.form() reads
   the request body; the header check, file.read() and the size check follow
   it and touch nothing shared. *)
UploadWith(p, fn, ct, st, cl, b) ==
    /\ Free(p)
    /\ LET rq == UploadReq(st, cl, b)
           read == TRUE
       IN  IF TooLarge(cl)
           THEN /\ Finish(p, rq, HttpError(413), read)
                /\ UNCHANGED <<disk, nextUuid, sent>>
           ELSE IF EmptyFile(Len(b))
           THEN /\ Finish(p, rq, HttpError(400), read)
                /\ UNCHANGED <<disk, nextUuid, sent>>
           ELSE /\ nextUuid <= MaxUuid
                /\ nextUuid' = nextUuid + 1
                /\ LET \* rec_id = uuid.uuid4() ; now = dt.datetime.now(...): the
                       \* k-th id drawn carries the k-th timestamp
                       row == NewRow(nextUuid, fn, ct, st, b, nextUuid) IN
                   IF st = "local" /\ ~CanCreate(row.filename)
                   THEN /\ Finish(p, rq, ServerError, read)
                        /\ UNCHANGED <<disk, sent>>
                   ELSE /\ disk' = IF st = "local"
                                   THEN WriteFile(disk, Val(row.path), b)
                                   ELSE disk
                        /\ sent' = sent \cup
                                     {[id |-> row.id, body |-> b, content_type |-> ct]}
                        /\ Goto(p, "upload_insert", row)
    /\ UNCHANGED <<files, delStarted, deleted, rmFailed>>

Upload(p) ==
    \E fn \in Filenames, ct \in ContentTypes, st \in StorageChoices,
       cl \in ContentLengths, b \in Bodies : UploadWith(p, fn, ct, st, cl, b)

(* POST /upload: the insert and the redirect *)
UploadInsert(p) ==
    /\ pc[p] = "upload_insert"
    /\ files' = files \cup {Val(loc[p])}
    /\ Finish(p, RowReq("upload", Val(loc[p])), Redirect, TRUE)
    /\ UNCHANGED <<disk, nextUuid, sent, delStarted, deleted, rmFailed>>

(* GET /download/{file_id}: the select; an inline row is answered from it *)
DownloadOf(p, file_id) ==
    /\ Free(p)
    /\ LET rq == IdReq("download", file_id, files)
           found == Lookup(files, file_id)
       IN  IF found = {}
           THEN Finish(p, rq, HttpError(404), FALSE)
           ELSE LET row == CHOOSE x \in found : TRUE IN
                IF row.storage_type = "local"
                THEN Goto(p, "download_exists", row)
                ELSE Finish(p, rq, Streaming(row.data, row), FALSE)
    /\ UNCHANGED <<files, disk, nextUuid, sent, delStarted, deleted, rmFailed>>

Download(p) == \E file_id \in Uuids : DownloadOf(p, file_id)

\* open(file_path, "rb") finds no file: FileNotFoundError, which nothing catches
OpenMissing(p) == Finish(p, RowReq("download", Val(loc[p])), ServerError, FALSE)

(* GET /download/{file_id}: not file_path or not os.path.exists(file_path) *)
DownloadExists(p) ==
    /\ pc[p] = "download_exists"
    /\ LET row == Val(loc[p]) IN
       IF IsNone(row.path) \/ Val(row.path) \notin DOMAIN disk
       THEN Finish(p, RowReq("download", row), HttpError(404), FALSE)
       ELSE Goto(p, "download_open", row)
    /\ UNCHANGED <<files, disk, nextUuid, sent, delStarted, deleted, rmFailed>>

(* GET /download/{file_id}: open(file_path, "rb"); the open handle keeps the
   file's bytes readable whatever is unlinked afterwards *)
DownloadOpen(p) ==
    /\ pc[p] = "download_open"
    /\ LET row == Val(loc[p]) IN
       IF Val(row.path) \in DOMAIN disk
       THEN Finish(p, RowReq("download", row), Streaming(disk[Val(row.path)], row), FALSE)
       ELSE OpenMissing(p)
    /\ UNCHANGED <<files, disk, nextUuid, sent, delStarted, deleted, rmFailed>>

(* POST /delete/{file_id}: the select *)
DeleteOf(p, file_id) ==
    /\ Free(p)
    /\ LET rq == IdReq("delete", file_id, files)
           found == Lookup(files, file_id)
       IN  IF found = {}
           THEN /\ Finish(p, rq, HttpError(404), FALSE)
                /\ UNCHANGED delStarted
           ELSE LET row == CHOOSE x \in found : TRUE IN
                /\ Goto(p, IF row.storage_type = "local" /\ ~IsNone(row.path)
                           THEN "delete_exists" ELSE "delete_row", row)
                /\ delStarted' = delStarted \cup {file_id}
    /\ UNCHANGED <<files, disk, nextUuid, sent, deleted, rmFailed>>

Delete(p) == \E file_id \in Uuids : DeleteOf(p, file_id)

(* POST /delete/{file_id}: os.path.exists(row["path"]) *)
DeleteExists(p) ==
    /\ pc[p] = "delete_exists"
    /\ Goto(p, IF Val(Val(loc[p]).path) \in DOMAIN disk
               THEN "delete_remove" ELSE "delete_row", Val(loc[p]))
    /\ UNCHANGED <<files, disk, nextUuid, sent, delStarted, deleted, rmFailed>>

\* os.remove outside any try: its exception ends the request
RemoveRaised_Uncaught(p) == Finish(p, RowReq("delete", Val(loc[p])), ServerError, FALSE)

\* except Exception as e: print(...): the request goes on to the row's delete
RemoveRaised(p) == Goto(p, "delete_row", Val(loc[p]))

(* POST /delete/{file_id}: try: os.remove(row["path"]).  The call removes the
   file, or raises: the file went away since the check, or the system refuses *)
DeleteRemove(p) ==
    /\ pc[p] = "delete_remove"
    /\ LET path == Val(Val(loc[p]).path) IN
       IF path \in DOMAIN disk
       THEN \/ /\ disk' = Unlink(disk, path)
               /\ Goto(p, "delete_row", Val(loc[p]))
               /\ UNCHANGED rmFailed
            \/ /\ rmFailed' = TRUE
               /\ RemoveRaised(p)
               /\ UNCHANGED disk
       ELSE /\ RemoveRaised(p)
            /\ UNCHANGED <<disk, rmFailed>>
    /\ UNCHANGED <<files, nextUuid, sent, delStarted, deleted>>

(* POST /delete/{file_id}: the delete, the commit and the redirect *)
DeleteRow(p) ==
    /\ pc[p] = "delete_row"
    /\ LET row == Val(loc[p]) IN
       /\ files' = DeleteWhere(files, row.id)
       /\ deleted' = deleted \cup {row.id}
       /\ sent' = {u \in sent : u.id # row.id}
       /\ Finish(p, RowReq("delete", row), Redirect, FALSE)
    /\ UNCHANGED <<disk, nextUuid, delStarted, rmFailed>>

Next ==
    \E p \in Procs :
        \/ Index(p)
        \/ Upload(p)
        \/ UploadInsert(p)
        \/ Download(p)
        \/ DownloadExists(p)
        \/ DownloadOpen(p)
        \/ Delete(p)
        \/ DeleteExists(p)
        \/ DeleteRemove(p)
        \/ DeleteRow(p)

Spec == Init /\ [][Next]_vars

-----
(* What a client makes of a redirect: RFC 3986, 5.2.  A path is the sequence
   of its segments ("/" is <<"">>, "/delete/" is <<"delete", "">>); the
   reference is merged with the base path less its last segment, and the dot
   segments are removed. *)

RECURSIVE RemoveDotSegments(_, _)
RemoveDotSegments(input, output) ==
    IF input = <<>> THEN output
    ELSE LET seg == Head(input)
             rest == Tail(input)
             popped == IF output = <<>> THEN output
                       ELSE SubSeq(output, 1, Len(output) - 1)
             close(o) == IF rest = <<>> THEN Append(o, "") ELSE o
         IN  CASE seg = "."  -> RemoveDotSegments(rest, close(output))
               [] seg = ".." -> RemoveDotSegments(rest, close(popped))
               [] OTHER      -> RemoveDotSegments(rest, Append(output, seg))

Resolve(base, ref) == RemoveDotSegments(SubSeq(base, 1, Len(base) - 1) \o ref, <<>>)

ListingPage == <<"">>

-----------------------------------------------------------------------------
(* Properties *)

Ids(table) == {row.id : row \in table}
Answered(k) == out.req.kind = k
Quiescent == \A p \in Procs : pc[p] = "idle"
Expected(content_type) == IF IsNone(content_type) THEN OCTET_STREAM ELSE Val(content_type)
TooLargeRequest(r) == r.declared_over \/ r.size > MaxBytes

\* C1: a download of a record that was in the table when it was requested, with
\* no delete of that id begun by the time it is answered, answers 200 with the
\* uploaded bytes and the uploaded content type (the generic binary type when
\* none was uploaded), and every row's size_bytes is the length of the bytes
\* uploaded for it.
C1_RoundTrip ==
    /\ (Answered("download") /\ out.req.live /\ out.req.id \notin delStarted) =>
          \E u \in sent :
              /\ u.id = out.req.id
              /\ out.resp.status = 200
              /\ out.resp.body = u.body
              /\ out.resp.media = Some(Expected(u.content_type))
    /\ \A row \in files : \A u \in sent :
          u.id = row.id => row.size_bytes = Len(u.body)

C1_Witness ==
    \E row \in files :
        /\ Answered("download") /\ out.req.live /\ out.req.id \notin delStarted
        /\ row.id = out.req.id /\ row.storage_type = "local"
        /\ out.resp.status = 200 /\ out.resp.body = <<1>>
        /\ out.resp.media = Some(OCTET_STREAM)

\* C2 (as claimed): an upload whose content-length header or whose file exceeds
\* the maximum is answered 413.
C2_Original ==
    (Answered("upload") /\ TooLargeRequest(out.req)) => out.resp.status = 413

\* C3 (as claimed): an upload of a zero-byte file is answered 400.
C3_Original ==
    (Answered("upload") /\ out.req.size = 0) => out.resp.status = 400

\* C3 (amended): an upload of a zero-byte file is answered with a client error,
\* 413 when its content-length header exceeds the maximum and 400 otherwise,
\* in the step that takes the request, and that step changes neither the table
\* nor the directory.
C3_EmptyRejected ==
    /\ []((Answered("upload") /\ out.req.size = 0) =>
             out.resp.status = IF out.req.declared_over THEN 413 ELSE 400)
    /\ [][(out'.req.kind = "upload" /\ out'.req.size = 0) =>
             (pc' = pc /\ UNCHANGED <<files, disk>>)]_vars

C3_Witness ==
    /\ Answered("upload") /\ out.req.size = 0 /\ out.req.storage = "local"
    /\ out.resp.status = 400 /\ files # {}

\* C4: an id whose delete has been answered 303 is in no row of the table and
\* in no listing made afterwards, and a download that looks it up afterwards
\* is answered 404 at once.
C4_DeletedStaysGone ==
    /\ [](deleted \cap Ids(files) = {})
    /\ [](Answered("index") =>
             \A i \in 1..Len(out.resp.body) : out.resp.body[i] \notin deleted)
    /\ [][\A p \in Procs :
            /\ (pc[p] = "idle" /\ pc'[p] = "download_exists") =>
                  Val(loc'[p]).id \notin deleted
            /\ (pc' = pc /\ out'.req.kind = "download" /\ out'.req.id \in deleted) =>
                  out'.resp.status = 404]_vars

C4_Witness ==
    /\ Answered("download") /\ out.req.id \in deleted /\ out.resp.status = 404
    /\ files # {}

\* C5: a delete that found its row always goes on to delete the row and answers
\* 303, whether os.remove removed the file, found it gone or failed; and when
\* no os.remove has failed, the row's file is gone when the delete answers.
C5_DeleteBestEffort ==
    /\ [](Answered("delete") =>
            /\ out.resp.status \in {303, 404}
            /\ out.req.live => (out.resp.status = 303 /\ out.req.id \notin Ids(files)))
    /\ [][\A p \in Procs :
            /\ (pc[p] = "delete_remove" /\ pc'[p] # pc[p]) => pc'[p] = "delete_row"
            /\ (pc[p] = "delete_row" /\ pc'[p] # pc[p]) =>
                  LET row == Val(loc[p]) IN
                  /\ out'.resp.status = 303
                  /\ row.id \notin Ids(files')
                  /\ (row.storage_type = "local" /\ ~rmFailed)
                        => Val(row.path) \notin DOMAIN disk']_vars

C5_Witness ==
    /\ Answered("delete") /\ out.resp.status = 303
    /\ rmFailed /\ files = {} /\ DOMAIN disk # {}

\* C6: every row has either non-empty data or a path, never both and never
\* neither, as its storage_type says: a db row has data and no path, a local
\* row a path and no data; and a step changes no row: it keeps it or removes it.
C6_RowShape ==
    /\ [](\A row \in files :
            /\ (row.data # <<>>) # (~IsNone(row.path))
            /\ row.storage_type \in {"db", "local"}
            /\ row.storage_type = "db" => (row.data # <<>> /\ IsNone(row.path))
            /\ row.storage_type = "local" => (row.data = <<>> /\ ~IsNone(row.path)))
    /\ [][\A row \in files : row \in files' \/ row.id \notin Ids(files')]_vars

C6_Witness ==
    \E r1 \in files, r2 \in files :
        r1.storage_type = "db" /\ r2.storage_type = "local"

\* C7 (as claimed): the location of every 303 response, resolved against the
\* URL of its request, is the listing page.
C7_Original ==
    out.resp.status = 303 =>
        Resolve(RequestPath(out.req), Val(out.resp.location)) = ListingPage

\* C8 (as claimed): an upload answered 413 has not read its request body.
C8_Original ==
    (Answered("upload") /\ out.resp.status = 413) => ~out.body_read

\* C9 (as claimed): a download ends with the file's bytes or with 404, never
\* with a server error.
C9_Original ==
    Answered("download") => out.resp.status \in {200, 404}

\* C10: when no request is in flight and no os.remove has failed, the files of
\* the upload directory are the paths of the local rows; and two rows never
\* have the same path.
C10_DiskMatchesTable ==
    /\ (Quiescent /\ ~rmFailed) =>
          DOMAIN disk = {Val(row.path) : row \in {x \in files : x.storage_type = "local"}}
    /\ \A r1 \in files, r2 \in files :
          (r1 # r2 /\ ~IsNone(r1.path)) => r1.path # r2.path

C10_Witness ==
    /\ Quiescent /\ ~rmFailed /\ deleted # {}
    /\ \E row \in files : row.storage_type = "local"

====
